---- MODULE Spec2Model ----
(***************************************************************************)
(* Model of src/app.py: the Bootstrap assignment auto grader.              *)
(*                                                                         *)
(* Python strings are modelled as sequences of one-character strings, so   *)
(* that split(), the substring test `in`, replace(), rstrip(), lower() and *)
(* the regular expressions are computed character by character.            *)
(***************************************************************************)
EXTENDS Integers, Sequences, FiniteSets, TLC

VARIABLES
    pc,            \* position inside main() / grade_assignment() / fetch_html_from_github()
    username,      \* st.text_input("Enter your username:")
    github_link,   \* grade_assignment's local github_link
    requests,      \* history: the HTTP requests issued, with their outcome
    html_content,  \* grade_assignment's local html_content
    soup,          \* the parsed document
    evals,         \* history: names of the grade_* functions called so far
    results,       \* grade_assignment's local results
    total_score,   \* grade_assignment's local total_score
    percentage,    \* grade_assignment's local percentage
    shown,         \* the findings rendered in the "Detailed Breakdown"
    message,       \* the st.error shown by an early return or by the except clause
    tier,          \* the "Final Feedback" branch taken
    raised         \* history: a grade_* call raised an exception

vars == <<pc, username, github_link, requests, html_content, soup, evals,
          results, total_score, percentage, shown, message, tier, raised>>

None == "None"

-----------------------------------------------------------------------------
(* Python str primitives over sequences of characters                      *)

\* s[i:] for a 1-based i
Drop(s, i) == SubSeq(s, i, Len(s))

\* s.startswith(p, i-1)
StartsAt(s, i, p) ==
    /\ i + Len(p) - 1 <= Len(s)
    /\ \A k \in 1..Len(p) : s[i + k - 1] = p[k]

\* sub in s
Contains(sub, s) == \E i \in 1..(Len(s) - Len(sub) + 1) : StartsAt(s, i, sub)

\* s.rstrip('/')
RECURSIVE RStripSlash(_)
RStripSlash(s) ==
    IF Len(s) > 0 /\ s[Len(s)] = "/" THEN RStripSlash(SubSeq(s, 1, Len(s) - 1)) ELSE s

\* s.replace(old, new): every non-overlapping occurrence, left to right
RECURSIVE Replace(_, _, _)
Replace(s, old, new) ==
    IF Len(s) = 0 THEN <<>>
    ELSE IF StartsAt(s, 1, old) THEN new \o Replace(Drop(s, Len(old) + 1), old, new)
    ELSE <<s[1]>> \o Replace(Drop(s, 2), old, new)

UpperToLower == [c \in {"A", "B", "C", "S"} |->
                   CASE c = "A" -> "a" [] c = "B" -> "b" [] c = "C" -> "c" [] c = "S" -> "s"]

\* s.lower()
Lower(s) == [i \in 1..Len(s) |-> IF s[i] \in DOMAIN UpperToLower THEN UpperToLower[s[i]] ELSE s[i]]

\* s.split(): the maximal runs of non-whitespace characters
RECURSIVE SplitFrom(_, _, _)
SplitFrom(s, i, cur) ==
    IF i > Len(s) THEN (IF cur = <<>> THEN <<>> ELSE <<cur>>)
    ELSE IF s[i] = " " THEN (IF cur = <<>> THEN <<>> ELSE <<cur>>) \o SplitFrom(s, i + 1, <<>>)
    ELSE SplitFrom(s, i + 1, Append(cur, s[i]))

Split(s) == SplitFrom(s, 1, <<>>)

\* ' '.join(tokens)
RECURSIVE Join(_)
Join(tokens) ==
    IF Len(tokens) = 0 THEN <<>>
    ELSE IF Len(tokens) = 1 THEN tokens[1]
    ELSE tokens[1] \o <<" ">> \o Join(Tail(tokens))

-----------------------------------------------------------------------------
(* Regular expression pieces used by is_valid_github_url and the fallback   *)

Letters == {"a","b","c","d","e","f","g","h","i","j","k","l","m",
            "n","o","p","q","r","s","t","u","v","w","x","y","z",
            "A","B","C","S"}
Digits == {"0","1","2","3","4","5","6","7","8","9"}

\* [\w\-]
WordDash == Letters \cup Digits \cup {"_", "-"}
\* [\w\-/\.]
WordDashSlashDot == WordDash \cup {"/", "."}

\* the index just after the longest run of characters of cls starting at i
RECURSIVE RunEnd(_, _, _)
RunEnd(s, i, cls) == IF i <= Len(s) /\ s[i] \in cls THEN RunEnd(s, i + 1, cls) ELSE i

\* the index just after literal p at i, or 0 when p is not there
AfterLit(s, i, p) == IF i > 0 /\ StartsAt(s, i, p) THEN i + Len(p) ELSE 0

\* the index just after a non-empty greedy run [cls]+ at i, or 0
AfterRun(s, i, cls) == IF i > 0 /\ RunEnd(s, i, cls) > i THEN RunEnd(s, i, cls) ELSE 0

\* https?:// at the start of s
AfterScheme(s) ==
    IF StartsAt(s, 1, <<"h","t","t","p","s",":","/","/">>) THEN 9
    ELSE IF StartsAt(s, 1, <<"h","t","t","p",":","/","/">>) THEN 8
    ELSE 0

\* re.match(r'https?://github\.com/[\w\-]+/[\w\-]+', s)
MatchRepoPattern(s) ==
    LET a == AfterLit(s, AfterScheme(s), <<"g","i","t","h","u","b",".","c","o","m","/">>)
        b == AfterLit(s, AfterRun(s, a, WordDash), <<"/">>)
    IN  AfterRun(s, b, WordDash) > 0

\* re.match(r'https?://raw\.githubusercontent\.com/[\w\-]+/[\w\-]+/[\w\-/\.]+', s)
MatchRawPattern(s) ==
    LET a == AfterLit(s, AfterScheme(s), <<"r","a","w",".","g","i","t","h","u","b","u","s","e","r","c","o","n","t","e","n","t",".","c","o","m","/">>)
        b == AfterLit(s, AfterRun(s, a, WordDash), <<"/">>)
        c == AfterLit(s, AfterRun(s, b, WordDash), <<"/">>)
    IN  AfterRun(s, c, WordDashSlashDot) > 0

\* r'github\.com/([\w\-]+)/([\w\-]+)' anchored at position i: <<user, repo>>, or <<>>
\* when it does not match there
UserRepoAt(s, i) ==
    LET a == AfterLit(s, i, <<"g","i","t","h","u","b",".","c","o","m","/">>)
        ue == AfterRun(s, a, WordDash)
        b == AfterLit(s, ue, <<"/">>)
        re == AfterRun(s, b, WordDash)
    IN  IF re > 0 THEN <<SubSeq(s, a, ue - 1), SubSeq(s, b, re - 1)>> ELSE <<>>

\* re.search(r'github\.com/([\w\-]+)/([\w\-]+)', s): the leftmost match
SearchUserRepo(s) ==
    LET hits == {i \in 1..Len(s) : UserRepoAt(s, i) # <<>>}
    IN  IF hits = {} THEN <<>>
        ELSE UserRepoAt(s, CHOOSE i \in hits : \A j \in hits : i <= j)

-----------------------------------------------------------------------------
(* URL handling                                                            *)

clean_github_url(url) ==
    LET u == RStripSlash(url)
    IN  IF Contains(<<"g","i","t","h","u","b",".","c","o","m">>, u) /\ Contains(<<"b","l","o","b">>, u)
        THEN Replace(Replace(u, <<"g","i","t","h","u","b",".","c","o","m">>, <<"r","a","w",".","g","i","t","h","u","b","u","s","e","r","c","o","n","t","e","n","t",".","c","o","m">>),
                     <<"/","b","l","o","b","/">>, <<"/">>)
        ELSE u

is_valid_github_url(url) == MatchRepoPattern(url) \/ MatchRawPattern(url)

\* a fallback that looks on branch master
FallbackUrl_master(url) ==
    IF Contains(<<"r","a","w",".","g","i","t","h","u","b","u","s","e","r","c","o","n","t","e","n","t",".","c","o","m">>, url) THEN <<>>
    ELSE IF SearchUserRepo(url) = <<>> THEN <<>>
    ELSE <<"h","t","t","p","s",":","/","/","r","a","w",".","g","i","t","h","u","b","u","s","e","r","c","o","n","t","e","n","t",".","c","o","m","/">> \o SearchUserRepo(url)[1] \o <<"/">>
         \o SearchUserRepo(url)[2] \o <<"/","m","a","s","t","e","r","/","i","n","d","e","x",".","h","t","m","l">>

\* raw_url of the second requests.get of fetch_html_from_github, or <<>> when the
\* code does not issue one
FallbackUrl(url) ==
    IF Contains(<<"r","a","w",".","g","i","t","h","u","b","u","s","e","r","c","o","n","t","e","n","t",".","c","o","m">>, url) THEN <<>>
    ELSE IF SearchUserRepo(url) = <<>> THEN <<>>
    ELSE <<"h","t","t","p","s",":","/","/","r","a","w",".","g","i","t","h","u","b","u","s","e","r","c","o","n","t","e","n","t",".","c","o","m","/">> \o SearchUserRepo(url)[1] \o <<"/">>
         \o SearchUserRepo(url)[2] \o <<"/","m","a","i","n","/","i","n","d","e","x",".","h","t","m","l">>

-----------------------------------------------------------------------------
(* Markup and the parsed document.  An element is [name, attrs, parent]:    *)
(* attrs maps the attribute names present to their values, parent is the    *)
(* index of the enclosing element (0 at top level); elems is in document    *)
(* order.  The operators below query the parsed document.                   *)

\* class_='name': a token of the class list, or the tokens joined by one space,
\* equals the name
HasClass(e, name) ==
    /\ "class" \in DOMAIN e.attrs
    /\ \/ \E k \in 1..Len(e.attrs["class"]) : e.attrs["class"][k] = name
       \/ Join(e.attrs["class"]) = name

\* class_=<function>: the strings the function is tried on, in order: each token
\* of the class list, then the tokens joined by one space.  (A missing attribute is
\* tried as None and an empty class list as '', both falsy for `x and ...`.)
ClassCandidates(e) ==
    IF "class" \in DOMAIN e.attrs /\ Len(e.attrs["class"]) > 0
    THEN Append(e.attrs["class"], Join(e.attrs["class"]))
    ELSE <<>>

\* soup.find_all(name, class_=cls): indices in document order
FindAllByClass(doc, name, cls) ==
    {i \in 1..Len(doc.elems) : doc.elems[i].name = name /\ HasClass(doc.elems[i], cls)}

\* token in x.split()
InSplit(token, x) == LET parts == Split(x) IN \E k \in 1..Len(parts) : parts[k] = token

\* soup.find_all(class_=lambda x: x and token in x.split())
FindAllWithToken(doc, token) ==
    {i \in 1..Len(doc.elems) :
        \E k \in 1..Len(ClassCandidates(doc.elems[i])) :
            InSplit(token, ClassCandidates(doc.elems[i])[k])}

\* soup.find_all(class_=lambda x: x and util in x)
FindAllContaining(doc, util) ==
    {i \in 1..Len(doc.elems) :
        \E k \in 1..Len(ClassCandidates(doc.elems[i])) :
            Contains(util, ClassCandidates(doc.elems[i])[k])}

\* soup.find_all(name, attr=lambda x: x and 'bootstrap' in x.lower())
FindAllBootstrap(doc, name, attr) ==
    {i \in 1..Len(doc.elems) :
        /\ doc.elems[i].name = name
        /\ attr \in DOMAIN doc.elems[i].attrs
        /\ Contains(<<"b","o","o","t","s","t","r","a","p">>, Lower(doc.elems[i].attrs[attr]))}

\* soup.find('div', class_='container'): index of the first match, 0 for None
FindContainer(doc) ==
    LET hits == FindAllByClass(doc, "div", <<"c","o","n","t","a","i","n","e","r">>)
    IN  IF hits = {} THEN 0 ELSE CHOOSE i \in hits : \A j \in hits : i <= j

\* container.find_all('div', class_='row', recursive=False)
DirectChildRows(doc, c) ==
    {i \in FindAllByClass(doc, "div", <<"r","o","w">>) : doc.elems[i].parent = c}

\* the parser stores the multi-valued class attribute as the list of its
\* whitespace-separated tokens and every other attribute as the string written
ParseAttrs(attrs) ==
    [a \in DOMAIN attrs |-> IF a = "class" THEN Split(attrs[a]) ELSE attrs[a]]

\* BeautifulSoup(html_content, 'html.parser'): html_content is response.text, a str,
\* so no encoding is detected and original_encoding is None
BeautifulSoup(text) ==
    [original_encoding |-> None, doctype |-> text.doctype,
     elems |-> [i \in 1..Len(text.elems) |->
                  [name |-> text.elems[i].name, attrs |-> ParseAttrs(text.elems[i].attrs),
                   parent |-> text.elems[i].parent]]]

-----------------------------------------------------------------------------
(* The graded requirements.  A finding is the dict a grade_* returns; count *)
(* is the number the function derives its verdict (and feedback) from.      *)

Pass(requirement, n) ==
    [requirement |-> requirement, passed |-> TRUE, score |-> 1, max_score |-> 1, count |-> n]

Fail(requirement, n) ==
    [requirement |-> requirement, passed |-> FALSE, score |-> 0, max_score |-> 1, count |-> n]

grade_doctype(doc) ==
    IF doc.original_encoding # None /\ doc.doctype
    THEN Pass("DOCTYPE Declaration", 1)
    ELSE Fail("DOCTYPE Declaration", 0)

\* a failing branch that still awards the point
grade_container_full_on_fail(doc) ==
    IF FindContainer(doc) # 0
    THEN Pass("Bootstrap Container", 1)
    ELSE [Fail("Bootstrap Container", 0) EXCEPT !.score = 1]

grade_container(doc) ==
    IF FindContainer(doc) # 0
    THEN Pass("Bootstrap Container", 1)
    ELSE Fail("Bootstrap Container", 0)

\* one point per row, not capped at max_score
grade_rows_uncapped(doc) ==
    LET rows == FindAllByClass(doc, "div", <<"r","o","w">>)
    IN  [requirement |-> "Bootstrap Rows", passed |-> Cardinality(rows) >= 4,
         score |-> Cardinality(rows), max_score |-> 1, count |-> Cardinality(rows)]

\* two rows are enough
grade_rows_two(doc) ==
    LET rows == FindAllByClass(doc, "div", <<"r","o","w">>)
    IN  IF Cardinality(rows) >= 2
        THEN Pass("Bootstrap Rows", Cardinality(rows))
        ELSE Fail("Bootstrap Rows", Cardinality(rows))

grade_rows(doc) ==
    LET rows == FindAllByClass(doc, "div", <<"r","o","w">>)
    IN  IF Cardinality(rows) >= 4
        THEN Pass("Bootstrap Rows", Cardinality(rows))
        ELSE Fail("Bootstrap Rows", Cardinality(rows))

\* the list with the bare class added
col_classes_with_col ==
    << <<"c","o","l">>, <<"c","o","l","-","1">>, <<"c","o","l","-","2">>, <<"c","o","l","-","3">>, <<"c","o","l","-","4">>, <<"c","o","l","-","5">>, <<"c","o","l","-","6">>,
       <<"c","o","l","-","7">>, <<"c","o","l","-","8">>, <<"c","o","l","-","9">>, <<"c","o","l","-","1","0">>, <<"c","o","l","-","1","1">>, <<"c","o","l","-","1","2">> >>

col_classes ==
    << <<"c","o","l","-","1">>, <<"c","o","l","-","2">>, <<"c","o","l","-","3">>, <<"c","o","l","-","4">>, <<"c","o","l","-","5">>, <<"c","o","l","-","6">>,
       <<"c","o","l","-","7">>, <<"c","o","l","-","8">>, <<"c","o","l","-","9">>, <<"c","o","l","-","1","0">>, <<"c","o","l","-","1","1">>, <<"c","o","l","-","1","2">> >>

\* len(found) after found.extend(soup.find_all(...)) for each class of the list
RECURSIVE ExtendAll(_, _)
ExtendAll(doc, classes) ==
    IF Len(classes) = 0 THEN 0
    ELSE Cardinality(FindAllWithToken(doc, classes[1])) + ExtendAll(doc, Tail(classes))

\* ten columns required
grade_columns_ten(doc) ==
    LET columns == ExtendAll(doc, col_classes)
    IN  IF columns >= 10
        THEN Pass("Bootstrap Columns", columns)
        ELSE Fail("Bootstrap Columns", columns)

grade_columns(doc) ==
    LET columns == ExtendAll(doc, col_classes)
    IN  IF columns >= 8
        THEN Pass("Bootstrap Columns", columns)
        ELSE Fail("Bootstrap Columns", columns)

horiz_classes ==
    << <<"j","u","s","t","i","f","y","-","c","o","n","t","e","n","t","-","c","e","n","t","e","r">>, <<"j","u","s","t","i","f","y","-","c","o","n","t","e","n","t","-","s","t","a","r","t">>, <<"j","u","s","t","i","f","y","-","c","o","n","t","e","n","t","-","e","n","d">>,
       <<"j","u","s","t","i","f","y","-","c","o","n","t","e","n","t","-","b","e","t","w","e","e","n">>, <<"j","u","s","t","i","f","y","-","c","o","n","t","e","n","t","-","a","r","o","u","n","d">> >>

grade_horizontal_alignment(doc) ==
    LET found == ExtendAll(doc, horiz_classes)
    IN  IF found > 0
        THEN Pass("Horizontal Alignment", found)
        ELSE Fail("Horizontal Alignment", found)

vert_classes ==
    << <<"a","l","i","g","n","-","i","t","e","m","s","-","c","e","n","t","e","r">>, <<"a","l","i","g","n","-","i","t","e","m","s","-","s","t","a","r","t">>, <<"a","l","i","g","n","-","i","t","e","m","s","-","e","n","d">>,
       <<"a","l","i","g","n","-","i","t","e","m","s","-","b","a","s","e","l","i","n","e">>, <<"a","l","i","g","n","-","i","t","e","m","s","-","s","t","r","e","t","c","h">> >>

grade_vertical_alignment(doc) ==
    LET found == ExtendAll(doc, vert_classes)
    IN  IF found > 0
        THEN Pass("Vertical Alignment", found)
        ELSE Fail("Vertical Alignment", found)

grade_bootstrap_css(doc) ==
    LET links == FindAllBootstrap(doc, "link", "href")
    IN  IF links # {}
        THEN Pass("Bootstrap CSS Link", Cardinality(links))
        ELSE Fail("Bootstrap CSS Link", 0)

grade_bootstrap_js(doc) ==
    LET scripts == FindAllBootstrap(doc, "script", "src")
    IN  IF scripts # {}
        THEN Pass("Bootstrap JS Script", Cardinality(scripts))
        ELSE Fail("Bootstrap JS Script", 0)

utility_classes ==
    << <<"b","g","-">>, <<"t","e","x","t","-">>, <<"p","-">>, <<"m","-">>, <<"r","o","u","n","d","e","d">>, <<"s","h","a","d","o","w">>, <<"f","s","-">>, <<"f","w","-">> >>

\* found_count after the loop over utility_classes
RECURSIVE CountUtilities(_, _)
CountUtilities(doc, utils) ==
    IF Len(utils) = 0 THEN 0
    ELSE Cardinality(FindAllContaining(doc, utils[1])) + CountUtilities(doc, Tail(utils))

grade_specific_classes(doc) ==
    LET found_count == CountUtilities(doc, utility_classes)
    IN  IF found_count >= 10
        THEN Pass("Bootstrap Utility Classes", found_count)
        ELSE Fail("Bootstrap Utility Classes", found_count)

grade_layout_structure(doc) ==
    LET container == FindContainer(doc)
        rows == IF container # 0 THEN DirectChildRows(doc, container) ELSE {}
    IN  IF container # 0 /\ Cardinality(rows) >= 3
        THEN Pass("Layout Structure", Cardinality(rows))
        ELSE Fail("Layout Structure", Cardinality(rows))

\* the calls of grade_assignment, in the order it makes them
RuleOrder ==
    << "grade_doctype", "grade_container", "grade_rows", "grade_columns",
       "grade_horizontal_alignment", "grade_vertical_alignment", "grade_bootstrap_css",
       "grade_bootstrap_js", "grade_specific_classes", "grade_layout_structure" >>

CallRule(name, doc) ==
    CASE name = "grade_doctype" -> grade_doctype(doc)
      [] name = "grade_container" -> grade_container(doc)
      [] name = "grade_rows" -> grade_rows(doc)
      [] name = "grade_columns" -> grade_columns(doc)
      [] name = "grade_horizontal_alignment" -> grade_horizontal_alignment(doc)
      [] name = "grade_vertical_alignment" -> grade_vertical_alignment(doc)
      [] name = "grade_bootstrap_css" -> grade_bootstrap_css(doc)
      [] name = "grade_bootstrap_js" -> grade_bootstrap_js(doc)
      [] name = "grade_specific_classes" -> grade_specific_classes(doc)
      [] name = "grade_layout_structure" -> grade_layout_structure(doc)

\* sum([result['score'] for result in results])
RECURSIVE SumScores(_)
SumScores(rs) == IF Len(rs) = 0 THEN 0 ELSE rs[1].score + SumScores(Tail(rs))

\* the chain without its third branch
FinalFeedback_three(total) ==
    IF total >= 9 THEN "Excellent"
    ELSE IF total >= 7 THEN "Good"
    ELSE "NeedsSignificantImprovement"

\* the if/elif chain under "Final Feedback"
FinalFeedback(total) ==
    IF total >= 9 THEN "Excellent"
    ELSE IF total >= 7 THEN "Good"
    ELSE IF total >= 5 THEN "Fair"
    ELSE "NeedsSignificantImprovement"

-----------------------------------------------------------------------------
(* Inputs: the links a student may type and the markup a fetch may return   *)

MaxRows == 4
MaxCols == 9
MaxUtil == 2

Links ==
    { <<>>,
      <<"h","t","t","p","s",":","/","/","g","i","t","h","u","b",".","c","o","m","/","u","/","r">>,
      <<"h","t","t","p","s",":","/","/","g","i","t","h","u","b",".","c","o","m","/","u","/","r","/">>,
      <<"h","t","t","p",":","/","/","g","i","t","h","u","b",".","c","o","m","/","u","-","1","/","r",".","j","s">>,
      <<"h","t","t","p","s",":","/","/","g","i","t","h","u","b",".","c","o","m","/","u","/","r","/","b","l","o","b","/","m","a","i","n","/","a",".","h","t","m","l">>,
      <<"h","t","t","p","s",":","/","/","r","a","w",".","g","i","t","h","u","b","u","s","e","r","c","o","n","t","e","n","t",".","c","o","m","/","u","/","r","/","m","a","i","n","/","a",".","h","t","m","l">>,
      <<"h","t","t","p","s",":","/","/","g","i","t","h","u","b",".","c","o","m","/","u","/","r","a","w",".","g","i","t","h","u","b","u","s","e","r","c","o","n","t","e","n","t",".","c","o","m">>,
      <<"h","t","t","p","s",":","/","/","g","i","t","h","u","b",".","c","o","m","/","u","/","b","l","o","b","b","y">>,
      <<"h","t","t","p","s",":","/","/","r","a","w",".","g","i","t","h","u","b","u","s","e","r","c","o","n","t","e","n","t",".","c","o","m","/","u","/","r">>,
      <<"h","t","t","p","s",":","/","/","g","i","t","h","u","b",".","c","o","m","/","u">>,
      <<"h","t","t","p","s",":","/","/","g","i","t","l","a","b",".","c","o","m","/","u","/","r">>,
      <<"g","i","t","h","u","b",".","c","o","m","/","u","/","r">> }

Usernames == {"", "student"}

Element(name, class, parent) == [name |-> name, attrs |-> [class |-> class], parent |-> parent]

RowClass(kind, i) ==
    CASE kind = "plain" -> <<"r","o","w">>
      [] kind = "horizontal" -> <<"r","o","w"," ","j","u","s","t","i","f","y","-","c","o","n","t","e","n","t","-","b","e","t","w","e","e","n">>
      [] kind = "aligned" ->
            IF i <= 2 THEN <<"r","o","w"," ","j","u","s","t","i","f","y","-","c","o","n","t","e","n","t","-","c","e","n","t","e","r"," ","a","l","i","g","n","-","i","t","e","m","s","-","c","e","n","t","e","r">>
            ELSE <<"r","o","w"," ","a","l","i","g","n","-","i","t","e","m","s","-","c","e","n","t","e","r">>
      [] kind = "rowspan" -> <<"r","o","w","s","p","a","n","-","i","t","e","m"," ","r","o","w","-","c","o","l","s","-","2">>

UtilityClass == <<"p","-","3"," ","m","-","2"," ","b","g","-","l","i","g","h","t"," ","t","e","x","t","-","c","e","n","t","e","r"," ","f","s","-","1">>

\* markup with: an optional <link href=css>, an optional <script src=js>, an optional
\* <div class=cont>, nd row divs that are its children (top-level when there is no
\* such div), nn row divs nested in the first of those, nc column divs of class
\* colcls and nu paragraphs of class UtilityClass.  <<>> stands for "absent".
Markup(dt, css, js, cont, nd, nn, rowkind, nc, colcls, nu) ==
    LET head == (IF css = <<>> THEN <<>>
                 ELSE << [name |-> "link", attrs |-> [href |-> css], parent |-> 0] >>)
             \o (IF js = <<>> THEN <<>>
                 ELSE << [name |-> "script", attrs |-> [src |-> js], parent |-> 0] >>)
        box == IF cont = <<>> THEN <<>> ELSE << Element("div", cont, 0) >>
        c == IF cont = <<>> THEN 0 ELSE Len(head) + 1
        first == Len(head) + Len(box) + 1
        direct == [i \in 1..nd |-> Element("div", RowClass(rowkind, i), c)]
        nested == [i \in 1..nn |-> Element("div", RowClass(rowkind, nd + i),
                                           IF nd > 0 THEN first ELSE 0)]
        cols == [i \in 1..nc |-> Element("div", colcls, IF nd > 0 THEN first ELSE c)]
        utils == [i \in 1..nu |-> Element("p", UtilityClass, c)]
    IN  [empty |-> FALSE, doctype |-> dt,
         elems |-> head \o box \o direct \o nested \o cols \o utils]

\* response.text == ''
EmptyText == [empty |-> TRUE, doctype |-> FALSE, elems |-> <<>>]

ColumnClasses ==
    { <<"c","o","l","-","4">>, <<"c","o","l">>, <<"c","o","l","-","0">>, <<"c","o","l","-","1","3">>, <<"c","o","l","-","1","2">>, <<"c","o","l","l","a","p","s","e">>, <<"c","o","l","-","m","d","-","6">>,
      <<"c","o","l","-","6"," ","c","o","l","-","4">>, <<"c","o","l","-","6"," ","c","o","l","-","6">> }

\* combinations of met and unmet requirements
MixedTexts ==
    { Markup(FALSE, assets[1], assets[2], cont, rows[1], rows[2], rowkind,
             extras[1], <<"c","o","l","-","6">>, extras[2]) :
        assets \in {<< <<>>, <<>> >>, << <<"c","s","s","/","B","o","o","t","s","t","r","a","p",".","c","s","s">>, <<>> >>,
                    << <<"c","s","s","/","B","o","o","t","s","t","r","a","p",".","c","s","s">>, <<"j","s","/","b","o","o","t","s","t","r","a","p",".","j","s">> >>},
        cont \in {<<>>, <<"c","o","n","t","a","i","n","e","r">>},
        rows \in {<<0, 0>>, <<3, 0>>, <<2, 2>>, <<4, 0>>},
        rowkind \in {"plain", "horizontal", "aligned"},
        extras \in {<<0, 0>>, <<8, 0>>, <<8, 2>>} }

\* row counts around the thresholds, inside and outside a container
RowTexts ==
    { Markup(TRUE, <<"c","s","s","/","B","o","o","t","s","t","r","a","p",".","c","s","s">>, <<>>, cont, nd, nn, rowkind, 0, <<"c","o","l">>, 0) :
        cont \in {<<>>, <<"c","o","n","t","a","i","n","e","r">>, <<"c","o","n","t","a","i","n","e","r","-","f","l","u","i","d">>, <<"m","y"," ","c","o","n","t","a","i","n","e","r">>},
        nd \in 0..MaxRows, nn \in 0..1, rowkind \in {"plain", "rowspan"} }

\* column counts around the threshold, for each kind of column class
ColumnTexts ==
    { Markup(TRUE, <<"c","s","s","/","B","o","o","t","s","t","r","a","p",".","c","s","s">>, extras[1], <<"c","o","n","t","a","i","n","e","r">>, 3, 0, "aligned",
             nc, colcls, extras[2]) :
        extras \in {<< <<>>, 0 >>, << <<"j","s","/","b","o","o","t","s","t","r","a","p",".","j","s">>, 2 >>},
        nc \in {0, 1} \cup ((MaxCols - 2)..MaxCols), colcls \in ColumnClasses }

LinkTexts ==
    { Markup(dt, css, <<>>, <<>>, 0, 0, "plain", 0, <<"c","o","l">>, nu) :
        dt \in BOOLEAN, css \in {<<"s","t","y","l","e",".","c","s","s">>, <<"B","O","O","T","S","T","R","A","P",".","C","S","S">>, <<"b","o","o","t","s","/","t","r","a","p",".","c","s","s">>},
        nu \in 0..MaxUtil }

Texts == {EmptyText} \cup MixedTexts \cup RowTexts \cup ColumnTexts \cup LinkTexts

\* the outcomes of requests.get(...) followed by raise_for_status()
Failure == [ok |-> FALSE, text |-> EmptyText]

Responses == {Failure} \cup {[ok |-> TRUE, text |-> t] : t \in Texts}

max_score == 10

-----------------------------------------------------------------------------
(* main() and grade_assignment()                                            *)

Init ==
    /\ pc = "form"
    /\ username = ""
    /\ github_link = <<>>
    /\ requests = <<>>
    /\ html_content = <<>>
    /\ soup = <<>>
    /\ evals = <<>>
    /\ results = <<>>
    /\ total_score = 0
    /\ percentage = 0
    /\ shown = <<>>
    /\ message = None
    /\ tier = None
    /\ raised = FALSE

\* main(), with beautifulsoup4 installed: the form is submitted; grade_assignment
\* runs only with both fields filled
Submit ==
    /\ pc = "form"
    /\ \E u \in Usernames, link \in Links :
          /\ username' = u
          /\ github_link' = link
          /\ pc' = IF u # "" /\ link # <<>> THEN "clean" ELSE "idle"
    /\ UNCHANGED <<requests, html_content, soup, evals, results, total_score,
                   percentage, shown, message, tier, raised>>

\* github_link = clean_github_url(github_link)
Clean ==
    /\ pc = "clean"
    /\ github_link' = clean_github_url(github_link)
    /\ pc' = "validate"
    /\ UNCHANGED <<username, requests, html_content, soup, evals, results, total_score,
                   percentage, shown, message, tier, raised>>

\* if not is_valid_github_url(github_link): st.error(...); return
Validate ==
    /\ pc = "validate"
    /\ IF is_valid_github_url(github_link)
       THEN pc' = "fetch" /\ UNCHANGED message
       ELSE pc' = "done" /\ message' = "Invalid GitHub URL"
    /\ UNCHANGED <<username, github_link, requests, html_content, soup, evals, results,
                   total_score, percentage, shown, tier, raised>>

\* fetch_html_from_github: the first requests.get.  html_content is <<>> for None
\* and <<text>> for a returned str.
FetchFirst ==
    /\ pc = "fetch"
    /\ \E resp \in Responses :
          /\ requests' = Append(requests, [url |-> github_link, ok |-> resp.ok,
                                           text |-> resp.text])
          /\ IF resp.ok
             THEN html_content' = <<resp.text>> /\ pc' = "fetched"
             ELSE IF FallbackUrl(github_link) # <<>>
             THEN html_content' = <<>> /\ pc' = "fallback"
             ELSE html_content' = <<>> /\ pc' = "fetched"
    /\ UNCHANGED <<username, github_link, soup, evals, results, total_score,
                   percentage, shown, message, tier, raised>>

\* fetch_html_from_github: the requests.get of raw_url inside the except clause
FetchFallback ==
    /\ pc = "fallback"
    /\ \E resp \in Responses :
          /\ requests' = Append(requests, [url |-> FallbackUrl(github_link), ok |-> resp.ok,
                                           text |-> resp.text])
          /\ html_content' = IF resp.ok THEN <<resp.text>> ELSE <<>>
          /\ pc' = "fetched"
    /\ UNCHANGED <<username, github_link, soup, evals, results, total_score,
                   percentage, shown, message, tier, raised>>

\* a check for None only
CheckContent_none_only ==
    /\ pc = "fetched"
    /\ IF html_content = <<>>
       THEN pc' = "done" /\ message' = "Could not fetch HTML content"
       ELSE pc' = "parse" /\ UNCHANGED message
    /\ UNCHANGED <<username, github_link, requests, html_content, soup, evals, results,
                   total_score, percentage, shown, tier, raised>>

\* if not html_content: st.error(...); return
CheckContent ==
    /\ pc = "fetched"
    /\ IF html_content = <<>> \/ html_content[1].empty
       THEN pc' = "done" /\ message' = "Could not fetch HTML content"
       ELSE pc' = "parse" /\ UNCHANGED message
    /\ UNCHANGED <<username, github_link, requests, html_content, soup, evals, results,
                   total_score, percentage, shown, tier, raised>>

\* soup = BeautifulSoup(html_content, 'html.parser')
Parse ==
    /\ pc = "parse"
    /\ soup' = <<BeautifulSoup(html_content[1])>>
    /\ pc' = "grade"
    /\ UNCHANGED <<username, github_link, requests, html_content, evals, results,
                   total_score, percentage, shown, message, tier, raised>>

\* a call that is skipped, and recorded as failed, once an earlier finding failed
Grade_gated ==
    /\ pc = "grade"
    /\ Len(results) < Len(RuleOrder)
    /\ IF \E i \in 1..Len(results) : ~results[i].passed
       THEN /\ evals' = evals
            /\ results' = Append(results,
                  [CallRule(RuleOrder[Len(results) + 1], soup[1])
                      EXCEPT !.passed = FALSE, !.score = 0])
       ELSE /\ evals' = Append(evals, RuleOrder[Len(results) + 1])
            /\ results' = Append(results, CallRule(RuleOrder[Len(results) + 1], soup[1]))
    /\ UNCHANGED <<pc, username, github_link, requests, html_content, soup, total_score,
                   percentage, shown, message, tier, raised>>

\* results.append(grade_xxx(soup)): the next call of the list
Grade ==
    /\ pc = "grade"
    /\ Len(results) < Len(RuleOrder)
    /\ evals' = Append(evals, RuleOrder[Len(results) + 1])
    /\ results' = Append(results, CallRule(RuleOrder[Len(results) + 1], soup[1]))
    /\ UNCHANGED <<pc, username, github_link, requests, html_content, soup, total_score,
                   percentage, shown, message, tier, raised>>

\* an exception that is swallowed per call: a zero finding, and grading goes on
GradeRaises_degrade ==
    /\ pc = "grade"
    /\ Len(results) < Len(RuleOrder)
    /\ evals' = Append(evals, RuleOrder[Len(results) + 1])
    /\ raised' = TRUE
    /\ results' = Append(results, Fail(RuleOrder[Len(results) + 1], 0))
    /\ UNCHANGED <<pc, username, github_link, requests, html_content, soup,
                   total_score, percentage, shown, message, tier>>

\* the next grade_xxx(soup) raises (any Exception, e.g. a RecursionError out of
\* str(element) on deeply nested markup): control goes to `except Exception as e`,
\* which shows the error; nothing after the failing call runs
GradeRaises ==
    /\ pc = "grade"
    /\ Len(results) < Len(RuleOrder)
    /\ evals' = Append(evals, RuleOrder[Len(results) + 1])
    /\ raised' = TRUE
    /\ message' = "An error occurred during grading"
    /\ pc' = "done"
    /\ UNCHANGED <<username, github_link, requests, html_content, soup, results,
                   total_score, percentage, shown, tier>>

\* total_score = sum(...); the two metrics; the breakdown; the final feedback
Report ==
    /\ pc = "grade"
    /\ Len(results) = Len(RuleOrder)
    /\ total_score' = SumScores(results)
    /\ percentage' = (SumScores(results) * 100) \div max_score
    /\ shown' = results
    /\ tier' = FinalFeedback(SumScores(results))
    /\ pc' = "done"
    /\ UNCHANGED <<username, github_link, requests, html_content, soup, evals, results,
                   message, raised>>

Next ==
    \/ Submit
    \/ Clean
    \/ Validate
    \/ FetchFirst
    \/ FetchFallback
    \/ CheckContent
    \/ Parse
    \/ Grade
    \/ GradeRaises
    \/ Report

Spec == Init /\ [][Next]_vars

-----------------------------------------------------------------------------
(* Vocabulary of the properties, stated on the parsed document itself       *)

Reported == tier # None

Parsed == soup # <<>>

\* the set of class tokens of a parsed element
TokenSet(e) ==
    IF "class" \in DOMAIN e.attrs
    THEN {e.attrs["class"][k] : k \in 1..Len(e.attrs["class"])}
    ELSE {}

ElementsWithToken(doc, token) ==
    {i \in 1..Len(doc.elems) : token \in TokenSet(doc.elems[i])}

RowMarkers(doc) == {i \in ElementsWithToken(doc, <<"r","o","w">>) : doc.elems[i].name = "div"}

Containers(doc) == {i \in ElementsWithToken(doc, <<"c","o","n","t","a","i","n","e","r">>) : doc.elems[i].name = "div"}

DigitOf == <<"0", "1", "2", "3", "4", "5", "6", "7", "8", "9">>

\* the decimal numeral of n, for 0 <= n <= 99
Numeral(n) == IF n < 10 THEN <<DigitOf[n + 1]>> ELSE <<DigitOf[(n \div 10) + 1], DigitOf[(n % 10) + 1]>>

\* the class token col-n
ColN(n) == <<"c","o","l","-">> \o Numeral(n)

\* "col", or "col-" followed by the digits of a non-negative integer
IsColumnToken(t) ==
    \/ t = <<"c","o","l">>
    \/ /\ Len(t) > 4
       /\ SubSeq(t, 1, 4) = <<"c","o","l","-">>
       /\ \A k \in 5..Len(t) : t[k] \in Digits

\* pairs (element, n) with col-n among the element's tokens, 1 <= n <= 12
GridColumnHits(doc) ==
    {h \in (1..Len(doc.elems)) \X (1..12) : ColN(h[2]) \in TokenSet(doc.elems[h[1]])}

HorizontalTokens ==
    {<<"j","u","s","t","i","f","y","-","c","o","n","t","e","n","t","-">> \o x : x \in {<<"c","e","n","t","e","r">>, <<"s","t","a","r","t">>, <<"e","n","d">>, <<"b","e","t","w","e","e","n">>, <<"a","r","o","u","n","d">>}}

VerticalTokens ==
    {<<"a","l","i","g","n","-","i","t","e","m","s","-">> \o x : x \in {<<"c","e","n","t","e","r">>, <<"s","t","a","r","t">>, <<"e","n","d">>, <<"b","a","s","e","l","i","n","e">>, <<"s","t","r","e","t","c","h">>}}

FrameworkLinks(doc) ==
    {i \in 1..Len(doc.elems) :
        /\ doc.elems[i].name = "link"
        /\ "href" \in DOMAIN doc.elems[i].attrs
        /\ Contains(<<"b","o","o","t","s","t","r","a","p">>, Lower(doc.elems[i].attrs["href"]))}

\* the requirement names in the order of the report
Requirements ==
    << "DOCTYPE Declaration", "Bootstrap Container", "Bootstrap Rows", "Bootstrap Columns",
       "Horizontal Alignment", "Vertical Alignment", "Bootstrap CSS Link",
       "Bootstrap JS Script", "Bootstrap Utility Classes", "Layout Structure" >>

RECURSIVE SumMaxScores(_)
SumMaxScores(rs) == IF Len(rs) = 0 THEN 0 ELSE rs[1].max_score + SumMaxScores(Tail(rs))

\* the pieces of a URL between slashes
RECURSIVE Segments(_, _)
Segments(s, cur) ==
    IF Len(s) = 0 THEN (IF cur = <<>> THEN <<>> ELSE <<cur>>)
    ELSE IF s[1] = "/" THEN (IF cur = <<>> THEN <<>> ELSE <<cur>>) \o Segments(Tail(s), <<>>)
    ELSE Segments(Tail(s), Append(cur, s[1]))

\* the leading characters of a segment that a repository or user name pattern accepts
NamePart(seg) == SubSeq(seg, 1, RunEnd(seg, 1, WordDash) - 1)

\* index.html on branch main of the user and repository named by a github.com URL
IndexOnMain(url) ==
    LET segs == Segments(url, <<>>)
    IN  <<"h","t","t","p","s",":","/","/","r","a","w",".","g","i","t","h","u","b","u","s","e","r","c","o","n","t","e","n","t",".","c","o","m","/">> \o NamePart(segs[3]) \o <<"/">>
        \o NamePart(segs[4]) \o <<"/","m","a","i","n","/","i","n","d","e","x",".","h","t","m","l">>

FetchFinished == requests # <<>> /\ pc # "fallback"

-----------------------------------------------------------------------------
(* Properties                                                               *)

\* C1: every Finding has 0 <= score <= max_score, and the total never exceeds the
\* declared max score (10), which is the sum of the findings' max_score.
C1_ScoresWithinMax ==
    /\ \A i \in 1..Len(results) : 0 <= results[i].score /\ results[i].score <= results[i].max_score
    /\ total_score <= max_score
    /\ Reported => /\ total_score = SumScores(results)
                   /\ SumMaxScores(results) = max_score

C1_Witness == Reported /\ total_score = 9

\* C2: a Finding's passed flag is true exactly when its score equals its max_score.
C2_PassedIffFullScore ==
    \A i \in 1..Len(results) : results[i].passed <=> (results[i].score = results[i].max_score)

C2_Witness ==
    /\ Reported
    /\ \E i, j \in 1..Len(results) : results[i].passed /\ ~results[j].passed

\* C3: after parsing, the rules are called once each in the declared order, the
\* report holds one Finding per rule in that order, and each Finding is the rule's
\* verdict on the document whatever the other Findings are.
C3_EveryRuleOnceInOrder ==
    /\ evals = SubSeq(RuleOrder, 1, Len(evals))
    /\ Len(evals) = Len(results) + (IF raised THEN 1 ELSE 0)
    /\ \A i \in 1..Len(results) : results[i].requirement = Requirements[i]
    /\ Reported =>
          /\ evals = RuleOrder
          /\ shown = results
          /\ results = [i \in 1..Len(RuleOrder) |-> CallRule(RuleOrder[i], soup[1])]

C3_Witness ==
    /\ Reported
    /\ \E i, j \in 1..Len(results) : i < j /\ ~results[i].passed /\ results[j].passed

\* C4 as claimed: with 2 row markers the Rows Finding carries partial credit,
\* strictly between 0 and its weight, and is not passed.
C4_Original ==
    (Parsed /\ Len(results) >= 3 /\ Cardinality(RowMarkers(soup[1])) = 2) =>
        /\ 0 < results[3].score
        /\ results[3].score < results[3].max_score
        /\ ~results[3].passed

\* C4 amended: with 2 row markers the Rows Finding carries 0 points and is not
\* passed, and grading that ends without an exception shows the full report.
C4_TwoRowsScoreZero ==
    (Parsed /\ Cardinality(RowMarkers(soup[1])) = 2) =>
        /\ Len(results) >= 3 =>
              /\ results[3].requirement = "Bootstrap Rows"
              /\ results[3].score = 0
              /\ ~results[3].passed
              /\ results[3].count = 2
        /\ (pc = "done" /\ ~raised) => (Reported /\ Len(shown) = Len(RuleOrder))

C4_Witness == Parsed /\ Reported /\ Cardinality(RowMarkers(soup[1])) = 2

\* a framework CSS link, one container, exactly 3 row markers, 9 grid columns,
\* 2 horizontal-alignment and 3 vertical-alignment classes
Scenario2(doc) ==
    /\ FrameworkLinks(doc) # {}
    /\ Cardinality(Containers(doc)) = 1
    /\ Cardinality(RowMarkers(doc)) = 3
    /\ Cardinality({h[1] : h \in GridColumnHits(doc)}) = 9
    /\ Cardinality({i \in 1..Len(doc.elems) : TokenSet(doc.elems[i]) \cap HorizontalTokens # {}}) = 2
    /\ Cardinality({i \in 1..Len(doc.elems) : TokenSet(doc.elems[i]) \cap VerticalTokens # {}}) = 3

\* C5 as claimed: such a document gets full points on the link, container, rows,
\* columns and both alignment rules, and the top tier.
C5_Original ==
    (Parsed /\ Reported /\ Scenario2(soup[1])) =>
        /\ \A i \in {2, 3, 4, 5, 6, 7} : results[i].score = results[i].max_score
        /\ tier = "Excellent"

\* C5 amended: such a document gets full points on the link, container, columns and
\* both alignment rules, 0 on the rows rule, at most 8 in total, and a tier below
\* the top one.
C5_ThreeRowsMissTopTier ==
    (Parsed /\ Reported /\ Scenario2(soup[1])) =>
        /\ \A i \in {2, 4, 5, 6, 7} : results[i].score = results[i].max_score
        /\ results[3].score = 0
        /\ total_score <= 8
        /\ tier \in {"Good", "Fair"}

C5_Witness == Parsed /\ Reported /\ Scenario2(soup[1]) /\ total_score = 8

\* C6 as claimed: three tiers, every percentage below 70 in the lowest one.
C6_Original ==
    Reported =>
        tier = IF percentage >= 90 THEN "Excellent"
               ELSE IF percentage >= 70 THEN "Good"
               ELSE "NeedsSignificantImprovement"

\* C6 amended: the tier is a function of the percentage with four tiers:
\* >= 90 Excellent, 70..89 Good, 50..69 Fair, below 50 Needs significant improvement.
C6_FourTiers ==
    Reported =>
        /\ percentage * max_score = total_score * 100
        /\ percentage >= 90 => tier = "Excellent"
        /\ (70 <= percentage /\ percentage < 90) => tier = "Good"
        /\ (50 <= percentage /\ percentage < 70) => tier = "Fair"
        /\ percentage < 50 => tier = "NeedsSignificantImprovement"

C6_Witness == Reported /\ percentage = 50 /\ tier = "Fair"

\* C7 as claimed: when a rule raises, it counts as a failing Finding with 0 points,
\* the remaining rules run, and the report is produced.
C7_Original ==
    (raised /\ pc = "done") =>
        /\ Len(results) = Len(RuleOrder)
        /\ Reported

\* C7 amended: when a rule raises, grading stops there: the error is shown, the
\* remaining rules are not called, and no total, breakdown or tier is produced.
C7_RaiseAbortsGrading ==
    raised =>
        /\ pc = "done"
        /\ message = "An error occurred during grading"
        /\ Len(results) < Len(RuleOrder)
        /\ Len(evals) = Len(results) + 1
        /\ ~Reported
        /\ shown = <<>>
        /\ total_score = 0

C7_Witness == raised /\ Len(results) = 4 /\ \E i \in 1..4 : results[i].passed

\* C8: rules run and a report appears only after the URL passed validation and a
\* fetch returned non-empty markup; otherwise an error is shown and nothing is graded.
C8_NoGradingWithoutValidMarkup ==
    /\ requests # <<>> => is_valid_github_url(github_link)
    /\ (pc \in {"parse", "grade"} \/ Parsed \/ evals # <<>> \/ results # <<>> \/ Reported
            \/ shown # <<>>) =>
          /\ is_valid_github_url(github_link)
          /\ requests # <<>>
          /\ requests[Len(requests)].ok
          /\ ~requests[Len(requests)].text.empty
          /\ html_content = <<requests[Len(requests)].text>>
    /\ (pc = "done" /\ evals = <<>>) =>
          /\ message \in {"Invalid GitHub URL", "Could not fetch HTML content"}
          /\ ~Parsed /\ results = <<>> /\ ~Reported /\ shown = <<>>

C8_Witness ==
    /\ pc = "done"
    /\ message = "Could not fetch HTML content"
    /\ html_content = <<EmptyText>>

\* C9 as claimed: whenever the first fetch fails, one fallback fetch of index.html
\* on main follows.
C9_Original ==
    (FetchFinished /\ ~requests[1].ok) =>
        /\ Len(requests) = 2
        /\ requests[2].url = IndexOnMain(github_link)

\* C9 amended: a successful first fetch is the only request and its text is
\* returned; after a failed first fetch of a URL that does not contain
\* raw.githubusercontent.com exactly one fallback request for index.html on main
\* follows and decides the result; after a failed first fetch of a URL that
\* contains raw.githubusercontent.com no fallback is made and None is returned.
C9_FallbackOnlyForRepoUrls ==
    requests # <<>> =>
        /\ requests[1].url = github_link
        /\ pc = "fallback" =>
              Len(requests) = 1 /\ ~requests[1].ok
                /\ ~Contains(<<"r","a","w",".","g","i","t","h","u","b","u","s","e","r","c","o","n","t","e","n","t",".","c","o","m">>, github_link)
        /\ (FetchFinished /\ requests[1].ok) =>
              Len(requests) = 1 /\ html_content = <<requests[1].text>>
        /\ (FetchFinished /\ ~requests[1].ok
                /\ Contains(<<"r","a","w",".","g","i","t","h","u","b","u","s","e","r","c","o","n","t","e","n","t",".","c","o","m">>, github_link)) =>
              Len(requests) = 1 /\ html_content = <<>>
        /\ (FetchFinished /\ ~requests[1].ok
                /\ ~Contains(<<"r","a","w",".","g","i","t","h","u","b","u","s","e","r","c","o","n","t","e","n","t",".","c","o","m">>, github_link)) =>
              /\ Len(requests) = 2
              /\ requests[2].url = IndexOnMain(github_link)
              /\ html_content = IF requests[2].ok THEN <<requests[2].text>> ELSE <<>>

C9_Witness ==
    /\ pc = "fetched"
    /\ Len(requests) = 2
    /\ requests[2].ok
    /\ html_content = <<requests[2].text>>

\* C10 as claimed: the Columns rule counts exactly the elements that have a token
\* "col" or "col-<N>".
C10_Original ==
    (Parsed /\ Len(results) >= 4) =>
        results[4].count =
            Cardinality({i \in 1..Len(soup[1].elems) :
                            \E t \in TokenSet(soup[1].elems[i]) : IsColumnToken(t)})

\* C10 amended: the Columns rule counts an element once for each of col-1 .. col-12
\* that is one of its class tokens; no other token counts.
C10_CountsCol1To12 ==
    (Parsed /\ Len(results) >= 4) =>
        /\ results[4].requirement = "Bootstrap Columns"
        /\ results[4].count = Cardinality(GridColumnHits(soup[1]))
        /\ results[4].passed <=> Cardinality(GridColumnHits(soup[1])) >= 8

C10_Witness ==
    /\ Parsed
    /\ Len(results) >= 4
    /\ results[4].count = 0
    /\ Cardinality(ElementsWithToken(soup[1], <<"c","o","l">>)) >= 8

====
